---- MODULE Spec2Model ----
(***************************************************************************)
(* Model of notebooks/helper_functions.py: the four notebook helpers       *)
(* metric_evaluation, plot_learning_curves, plot_box_plot and              *)
(* full_model_evaluation.                                                  *)
(*                                                                         *)
(* The helpers run synchronously on the caller's thread, so one call is    *)
(* one action.  What a call does in between (library calls, prints,        *)
(* charts, nested helper calls, the error that ends it) is recorded, in    *)
(* program order, in the event list of the call.  The state that outlives  *)
(* a call is the list object bound to the default value of plot_box_plot's *)
(* `models` parameter and numpy's process-wide random seed.                *)
(*                                                                         *)
(* Scores are fixed-point numbers in units of 1/10000.                     *)
(***************************************************************************)
EXTENDS Integers, Sequences, FiniteSets, TLC

\* ---------------------------------------------------------------- bounds
MaxCv == 3          \* metric_evaluation is called with cv in 2..MaxCv
MaxModels == 2      \* longest `models` list a caller passes

\* ------------------------------------------------------ program constants
Seed100 == 100      \* np.random.seed(100)
DefaultCv == 5      \* cv: int = 5
NSplits == 10       \* RepeatedKFold(n_splits=10, ...)
NRepeats == 5       \* RepeatedKFold(..., n_repeats=5, ...)
RkfSeed == 100      \* RepeatedKFold(..., random_state=100)
LcCv == 10          \* learning_curve(..., cv=10, ...)
LcSeed == 100       \* learning_curve(..., random_state=100)
NSizes == 10        \* train_sizes=np.linspace(0.1, 1.0, 10)

DefaultModelName == "Model"
DefaultScoring == "recall_weighted"
DecisionTree == "Decision Tree"

\* -------------------------------------------------------- caller's inputs
Models == {"m1", "m2", "bad"}       \* "bad" is not a valid estimator
Data == {"d1", "dmulti"}            \* (X, y); "dmulti" has more than two classes
Scorings == {"recall_weighted", "accuracy"}
InitSeeds == {42}                   \* seed of the process before any helper ran
NoArg == "<omitted>"                \* the argument is not passed (or is None)
Pairs == {<<"A", "m1">>, <<"B", "m2">>, <<"B", "bad">>}   \* (name, model)
\* the `models` lists a caller passes: distinct pairs, at most MaxModels
ModelLists ==
    UNION {{s \in [1..n -> Pairs] : \A i, j \in 1..n : i # j => s[i] # s[j]}
           : n \in 0..MaxModels}
CvValues == 2..MaxCv

VARIABLES defaultModels,   \* the list object that is the default of `models`
          npSeed,          \* seed last given to numpy's global generator
          last             \* record of the most recent helper call

vars == <<defaultModels, npSeed, last>>

\* ------------------------------------------------------------ arithmetic
Min2(a, b) == IF a < b THEN a ELSE b

RECURSIVE Sum(_)
Sum(s) == IF s = <<>> THEN 0 ELSE Head(s) + Sum(Tail(s))

RECURSIVE MaxOf(_)
MaxOf(s) == IF Len(s) = 1 THEN s[1]
            ELSE LET m == MaxOf(Tail(s)) IN IF s[1] > m THEN s[1] ELSE m

RECURSIVE MinOf(_)
MinOf(s) == IF Len(s) = 1 THEN s[1]
            ELSE LET m == MinOf(Tail(s)) IN IF s[1] < m THEN s[1] ELSE m

\* a / n rounded to the nearest integer (halves up)
RoundDiv(a, n) == (2 * a + n) \div (2 * n)

\* numpy's round to `unit`: nearest multiple, halves to the even multiple
RoundTo(x, unit) ==
    LET q == x \div unit
        r == x % unit
    IN  IF 2 * r < unit THEN q * unit
        ELSE IF 2 * r > unit THEN (q + 1) * unit
        ELSE IF q % 2 = 0 THEN q * unit ELSE (q + 1) * unit

\* DataFrame.round(3)
Round3(x) == RoundTo(x, 10)

\* '{:.2f}'
Fmt2(x) == RoundTo(x, 100)

Mean(s) == RoundDiv(Sum(s), Len(s))

\* numpy std: square root of the mean squared deviation
Std(s) ==
    LET m == Mean(s)
        v == RoundDiv(Sum([i \in 1..Len(s) |-> (s[i] - m) * (s[i] - m)]), Len(s))
        hi == MaxOf(s) - MinOf(s)
    IN  CHOOSE r \in 0..hi : r * r <= v /\ v < (r + 1) * (r + 1)

\* ------------------------------------------------------- the library side
\* variant: 'f1_weighted' mistyped as a second 'recall_weighted'
metrics_list_recall_twice ==
    <<"accuracy", "precision_weighted", "recall_weighted", "recall_weighted",
      "roc_auc">>

metrics_list == <<"accuracy", "precision_weighted", "recall_weighted",
                  "f1_weighted", "roc_auc">>

MetricOffset(metric) ==
    CASE metric = "accuracy" -> 111
      [] metric = "precision_weighted" -> 222
      [] metric = "recall_weighted" -> 333
      [] metric = "f1_weighted" -> 444
      [] metric = "roc_auc" -> 555

\* The library call fails: the estimator is invalid, or the metric does not
\* apply to the data.
Raises(model, data, metric) ==
    \/ model = "bad"
    \/ data = "dmulti" /\ metric = "roc_auc"

\* Score of one fold: a deterministic function of the model, the data, the
\* metric and the split (number of folds, seed, fold).
ScoreAt(model, data, metric, n, seed, i) ==
    (IF model = "m1" THEN 8123 ELSE 7345)
    - (IF data = "d1" THEN 0 ELSE 1000)
    + MetricOffset(metric)
    + ((7 * i + 3 * n + seed) % 13) * 5

\* cross_val_score(model, X, y, cv=..., scoring=metric): one score per fold
cross_val_score(model, data, metric, n, seed) ==
    [i \in 1..n |-> ScoreAt(model, data, metric, n, seed, i)]

\* scoring.replace('_', ' ').capitalize()
MetricLabel(scoring) ==
    CASE scoring = "recall_weighted" -> "Recall weighted"
      [] scoring = "accuracy" -> "Accuracy"
      [] scoring = "precision_weighted" -> "Precision weighted"
      [] scoring = "f1_weighted" -> "F1 weighted"
      [] scoring = "roc_auc" -> "Roc auc"

\* ---------------------------------------------------------------- events
NoTable == [rows |-> <<>>, ncols |-> 0]

NoEv == [kind |-> "", fn |-> "", model |-> "", data |-> "", name |-> "",
         text |-> "", metric |-> "", n |-> 0, seed |-> 0, ok |-> TRUE,
         scores |-> <<>>, names |-> <<>>, results |-> <<>>, table |-> NoTable]

CallEv(f, model, data, name) ==
    [NoEv EXCEPT !.kind = "call", !.fn = f, !.model = model, !.data = data,
                 !.name = name]
ReturnEv(f) == [NoEv EXCEPT !.kind = "return", !.fn = f]
RaiseEv(f) == [NoEv EXCEPT !.kind = "raise", !.fn = f, !.ok = FALSE]

\* a call of cross_val_score made by helper f, and what it returned
CvsEv(f, model, data, metric, n, seed) ==
    [NoEv EXCEPT !.kind = "cvs", !.fn = f, !.model = model, !.data = data,
                 !.metric = metric, !.n = n, !.seed = seed,
                 !.ok = ~Raises(model, data, metric),
                 !.scores = IF Raises(model, data, metric) THEN <<>>
                            ELSE cross_val_score(model, data, metric, n, seed)]

PrintEv(f, text, name, metric, scores) ==
    [NoEv EXCEPT !.kind = "print", !.fn = f, !.text = text, !.name = name,
                 !.metric = metric, !.scores = scores]

ChartEv(f, name, metric, names, results, table) ==
    [NoEv EXCEPT !.kind = "chart", !.fn = f, !.name = name, !.metric = metric,
                 !.names = names, !.results = results, !.table = table]

\* ------------------------------------------------------ metric_evaluation
\* performance_dict.update({metric: metric_score}); a dict keeps its keys in
\* insertion order and holds each key once
DictUpdate(d, k, v) ==
    IF \E i \in 1..Len(d) : d[i][1] = k
    THEN [i \in 1..Len(d) |-> IF d[i][1] = k THEN <<k, v>> ELSE d[i]]
    ELSE Append(d, <<k, v>>)

\* pd.DataFrame(performance_dict).round(3).T with the "Cross Val n" columns
PerformanceDf(dict, metric_score) ==
    [rows |-> [i \in 1..Len(dict) |->
                 [label |-> dict[i][1],
                  values |-> [j \in 1..Len(dict[i][2]) |-> Round3(dict[i][2][j])]]],
     ncols |-> Len(metric_score)]

\* performance_df.T.mean() laid out by the format string: four percentages
\* with two decimals, the ROC area with three decimals
AveragedScores(df) ==
    [i \in 1..Len(df.rows) |->
        IF df.rows[i].label = "roc_auc" THEN Round3(Mean(df.rows[i].values))
        ELSE Mean(df.rows[i].values)]

\* for metric in metrics_list: ... ; an error of cross_val_score ends the loop
RECURSIVE ScoreMetrics(_, _, _, _, _, _, _)
ScoreMetrics(model, Xy, cv, seed, i, evs, dict) ==
    IF i > Len(metrics_list)
    THEN [events |-> evs, dict |-> dict, raised |-> FALSE]
    ELSE LET metric == metrics_list[i]
             ev == CvsEv("metric_evaluation", model, Xy, metric, cv, seed)
         IN  IF ~ev.ok
             THEN [events |-> Append(evs, ev), dict |-> dict, raised |-> TRUE]
             ELSE ScoreMetrics(model, Xy, cv, seed, i + 1, Append(evs, ev),
                               DictUpdate(dict, metric, ev.scores))

\* variant: the completion line indented into the `if print_results:` block
metric_evaluation_completion_in_print_block(model, Xy, cv, model_name, print_results, plot_results) ==
    LET f == "metric_evaluation"
        seed == Seed100
        run == ScoreMetrics(model, Xy, cv, seed, 1,
                            <<CallEv(f, model, Xy, model_name)>>, <<>>)
        metric_score == run.dict[Len(run.dict)][2]
        performance_df == PerformanceDf(run.dict, metric_score)
        plotted == IF plot_results
                   THEN <<ChartEv(f, model_name, "", <<>>, <<>>, performance_df)>>
                   ELSE <<>>
        printed == IF print_results
                   THEN <<PrintEv(f, "averaged_heading", model_name, "", <<>>),
                          PrintEv(f, "averaged_scores", "", "",
                                  AveragedScores(performance_df))>>
                   ELSE <<>>
    IN  IF run.raised
        THEN [events |-> Append(run.events, RaiseEv(f)), raised |-> TRUE,
              table |-> NoTable, seed |-> seed]
        ELSE [events |-> run.events \o plotted \o printed
                         \o (IF print_results
                             THEN <<PrintEv(f, "complete", model_name, "", <<>>)>>
                             ELSE <<>>)
                         \o <<ReturnEv(f)>>,
              raised |-> FALSE, table |-> performance_df, seed |-> seed]

metric_evaluation(model, Xy, cv, model_name, print_results, plot_results) ==
    LET f == "metric_evaluation"
        \* np.random.seed(100): the runs below split the data under this seed
        seed == Seed100
        run == ScoreMetrics(model, Xy, cv, seed, 1,
                            <<CallEv(f, model, Xy, model_name)>>, <<>>)
        metric_score == run.dict[Len(run.dict)][2]
        performance_df == PerformanceDf(run.dict, metric_score)
        plotted == IF plot_results
                   THEN <<ChartEv(f, model_name, "", <<>>, <<>>, performance_df)>>
                   ELSE <<>>
        printed == IF print_results
                   THEN <<PrintEv(f, "averaged_heading", model_name, "", <<>>),
                          PrintEv(f, "averaged_scores", "", "",
                                  AveragedScores(performance_df))>>
                   ELSE <<>>
    IN  IF run.raised
        THEN [events |-> Append(run.events, RaiseEv(f)), raised |-> TRUE,
              table |-> NoTable, seed |-> seed]
        ELSE [events |-> run.events \o plotted \o printed
                         \o <<PrintEv(f, "complete", model_name, "", <<>>),
                              ReturnEv(f)>>,
              raised |-> FALSE, table |-> performance_df, seed |-> seed]

\* --------------------------------------------------- plot_learning_curves
\* learning_curve(...): per training size, the scores of the cv folds on the
\* training part and on the validation part
learning_curve(model, Xy, metric, cv, seed) ==
    [train |-> [k \in 1..NSizes |->
                  [i \in 1..cv |-> Min2(10000, 900 + ScoreAt(model, Xy, metric, cv, seed + k, i))]],
     test |-> [k \in 1..NSizes |->
                  [i \in 1..cv |-> ScoreAt(model, Xy, metric, cv, seed + k, i)]]]

plot_learning_curves(model, Xy) ==
    LET f == "plot_learning_curves"
        failed == Raises(model, Xy, "recall_weighted")
        lc == [NoEv EXCEPT !.kind = "lc", !.fn = f, !.model = model, !.data = Xy,
                           !.metric = "recall_weighted", !.n = LcCv,
                           !.seed = LcSeed, !.ok = ~failed]
        curves == learning_curve(model, Xy, "recall_weighted", LcCv, LcSeed)
        train_mean == [k \in 1..NSizes |-> Mean(curves.train[k])]
        train_std == [k \in 1..NSizes |-> Std(curves.train[k])]
        test_mean == [k \in 1..NSizes |-> Mean(curves.test[k])]
        test_std == [k \in 1..NSizes |-> Std(curves.test[k])]
    IN  IF failed
        THEN [events |-> <<CallEv(f, model, Xy, ""), lc, RaiseEv(f)>>,
              raised |-> TRUE]
        ELSE [events |-> <<CallEv(f, model, Xy, ""), lc,
                           ChartEv(f, "", "Recall",
                                   <<"training recall", "validation recall">>,
                                   <<train_mean, train_std, test_mean, test_std>>,
                                   NoTable),
                           ReturnEv(f)>>,
              raised |-> FALSE]

\* ---------------------------------------------------------- plot_box_plot
\* for name, model in models: ... ; an error of cross_val_score ends the loop
RECURSIVE EvaluateModels(_, _, _, _, _, _, _)
EvaluateModels(models, Xy, scoring, i, evs, results, names) ==
    IF i > Len(models)
    THEN [events |-> evs, results |-> results, names |-> names, raised |-> FALSE]
    ELSE LET name == models[i][1]
             model == models[i][2]
             ev == CvsEv("plot_box_plot", model, Xy, scoring,
                         NSplits * NRepeats, RkfSeed)
         IN  IF ~ev.ok
             THEN [events |-> Append(evs, ev), results |-> results,
                   names |-> names, raised |-> TRUE]
             ELSE EvaluateModels(models, Xy, scoring, i + 1,
                     evs \o <<ev, PrintEv("plot_box_plot", "model_line", name, "",
                                          <<Fmt2(Mean(ev.scores)), Fmt2(Std(ev.scores))>>)>>,
                     Append(results, ev.scores), Append(names, name))

\* variant: the pair of the call is appended without the `if not models:` test
plot_box_plot_always_appends(model, Xy, model_name, scoring_arg, given, models_arg, dflt) ==
    LET f == "plot_box_plot"
        bound == IF given THEN models_arg ELSE dflt
        models == Append(bound, <<model_name, model>>)
        scoring == "recall_weighted"
        metric == MetricLabel(scoring)
        run == EvaluateModels(models, Xy, scoring, 1,
                              <<CallEv(f, model, Xy, model_name),
                                PrintEv(f, "heading", "", metric, <<>>)>>,
                              <<>>, <<>>)
        after == [dflt |-> IF given THEN dflt ELSE models,
                  models |-> IF given THEN models ELSE <<>>]
    IN  IF run.raised
        THEN [events |-> Append(run.events, RaiseEv(f)), raised |-> TRUE,
              dflt |-> after.dflt, models |-> after.models]
        ELSE [events |-> run.events
                         \o <<PrintEv(f, "newline", "", "", <<>>),
                              ChartEv(f, "", metric, run.names, run.results, NoTable),
                              ReturnEv(f)>>,
              raised |-> FALSE, dflt |-> after.dflt, models |-> after.models]

\* `given` tells whether the caller passed `models`; when it did not, `models`
\* is the default list object, whose content is `dflt`
plot_box_plot(model, Xy, model_name, scoring_arg, given, models_arg, dflt) ==
    LET f == "plot_box_plot"
        bound == IF given THEN models_arg ELSE dflt
        \* if not models: models.append(...) changes the list object in place
        models == IF bound = <<>> THEN Append(bound, <<model_name, model>>)
                  ELSE bound
        \* scoring ='recall_weighted' replaces the value of the parameter
        scoring == "recall_weighted"
        metric == MetricLabel(scoring)
        run == EvaluateModels(models, Xy, scoring, 1,
                              <<CallEv(f, model, Xy, model_name),
                                PrintEv(f, "heading", "", metric, <<>>)>>,
                              <<>>, <<>>)
        after == [dflt |-> IF given THEN dflt ELSE models,
                  models |-> IF given THEN models ELSE <<>>]
    IN  IF run.raised
        THEN [events |-> Append(run.events, RaiseEv(f)), raised |-> TRUE,
              dflt |-> after.dflt, models |-> after.models]
        ELSE [events |-> run.events
                         \o <<PrintEv(f, "newline", "", "", <<>>),
                              ChartEv(f, "", metric, run.names, run.results, NoTable),
                              ReturnEv(f)>>,
              raised |-> FALSE, dflt |-> after.dflt, models |-> after.models]

\* -------------------------------------------------- full_model_evaluation
\* variant: the metrics step called before the box plot step
full_model_evaluation_metrics_first(model, Xy, model_name_arg, dflt, seed0) ==
    LET f == "full_model_evaluation"
        model_name == IF model_name_arg = NoArg THEN DecisionTree
                      ELSE model_name_arg
        head == <<CallEv(f, model, Xy, model_name_arg),
                  PrintEv(f, "learning_curve_heading", model_name, "", <<>>)>>
        lc == plot_learning_curves(model, Xy)
        bp == plot_box_plot(model, Xy, model_name, DefaultScoring, FALSE, <<>>, dflt)
        me == metric_evaluation(model, Xy, DefaultCv, DefaultModelName, TRUE, TRUE)
    IN  IF lc.raised
        THEN [events |-> head \o lc.events \o <<RaiseEv(f)>>, raised |-> TRUE,
              dflt |-> dflt, seed |-> seed0]
        ELSE IF me.raised
        THEN [events |-> head \o lc.events \o me.events \o <<RaiseEv(f)>>,
              raised |-> TRUE, dflt |-> dflt, seed |-> me.seed]
        ELSE IF bp.raised
        THEN [events |-> head \o lc.events \o me.events \o bp.events
                         \o <<RaiseEv(f)>>,
              raised |-> TRUE, dflt |-> bp.dflt, seed |-> me.seed]
        ELSE [events |-> head \o lc.events \o me.events \o bp.events
                         \o <<ReturnEv(f)>>,
              raised |-> FALSE, dflt |-> bp.dflt, seed |-> me.seed]

full_model_evaluation(model, Xy, model_name_arg, dflt, seed0) ==
    LET f == "full_model_evaluation"
        model_name == IF model_name_arg = NoArg THEN DecisionTree
                      ELSE model_name_arg
        head == <<CallEv(f, model, Xy, model_name_arg),
                  PrintEv(f, "learning_curve_heading", model_name, "", <<>>)>>
        lc == plot_learning_curves(model, Xy)
        bp == plot_box_plot(model, Xy, model_name, DefaultScoring, FALSE, <<>>, dflt)
        me == metric_evaluation(model, Xy, DefaultCv, DefaultModelName, TRUE, TRUE)
    IN  IF lc.raised
        THEN [events |-> head \o lc.events \o <<RaiseEv(f)>>, raised |-> TRUE,
              dflt |-> dflt, seed |-> seed0]
        ELSE IF bp.raised
        THEN [events |-> head \o lc.events \o bp.events \o <<RaiseEv(f)>>,
              raised |-> TRUE, dflt |-> bp.dflt, seed |-> seed0]
        ELSE IF me.raised
        THEN [events |-> head \o lc.events \o bp.events \o me.events
                         \o <<RaiseEv(f)>>,
              raised |-> TRUE, dflt |-> bp.dflt, seed |-> me.seed]
        ELSE [events |-> head \o lc.events \o bp.events \o me.events
                         \o <<ReturnEv(f)>>,
              raised |-> FALSE, dflt |-> bp.dflt, seed |-> me.seed]

\* ------------------------------------------------------------ the notebook
\* Every list the default of `models` can hold
DefaultLists ==
    {<<>>} \cup {<< p >> : p \in Pairs}
           \cup {<< <<n, m>> >> : n \in {"A", DecisionTree}, m \in Models}

\* What a call does is a function of its arguments and of the state it starts
\* in; the functions are tabulated once.
MetricEvaluationOf ==
    [a \in Models \X Data \X CvValues \X {DefaultModelName, "A"} \X BOOLEAN \X BOOLEAN
        |-> metric_evaluation(a[1], a[2], a[3], a[4], a[5], a[6])] @@ <<>>

PlotLearningCurvesOf ==
    [a \in Models \X Data |-> plot_learning_curves(a[1], a[2])] @@ <<>>

PlotBoxPlotOf ==
    [a \in Pairs \X Data \X Scorings \X BOOLEAN \X ModelLists \X DefaultLists
        |-> plot_box_plot(a[1][2], a[2], a[1][1], a[3], a[4], a[5], a[6])] @@ <<>>

FullModelEvaluationOf ==
    [a \in Models \X Data \X {"A", NoArg} \X DefaultLists \X (InitSeeds \cup {Seed100})
        |-> full_model_evaluation(a[1], a[2], a[3], a[4], a[5])] @@ <<>>

NoCall == [fn |-> "none", model |-> "", data |-> "", cv |-> 0,
           model_name |-> NoArg, print_results |-> TRUE, plot_results |-> TRUE,
           scoring |-> NoArg, given |-> FALSE, models |-> <<>>,
           events |-> <<>>, raised |-> FALSE, table |-> NoTable,
           modelsAfter |-> <<>>, defaultBefore |-> <<>>, seedBefore |-> 0]

Init ==
    /\ defaultModels = <<>>
    /\ npSeed \in InitSeeds
    /\ last = NoCall

CallMetricEvaluation ==
    \E model \in Models, Xy \in Data, cv \in 2..MaxCv, name \in {NoArg, "A"},
       print_results \in BOOLEAN, plot_results \in BOOLEAN :
        LET r == MetricEvaluationOf[<<model, Xy, cv,
                     IF name = NoArg THEN DefaultModelName ELSE name,
                     print_results, plot_results>>]
        IN  /\ npSeed' = r.seed
            /\ UNCHANGED defaultModels
            /\ last' = [NoCall EXCEPT !.fn = "metric_evaluation", !.model = model,
                          !.data = Xy, !.cv = cv, !.model_name = name,
                          !.print_results = print_results,
                          !.plot_results = plot_results,
                          !.events = r.events, !.raised = r.raised,
                          !.table = r.table,
                          !.defaultBefore = defaultModels, !.seedBefore = npSeed]

CallPlotLearningCurves ==
    \E model \in Models, Xy \in Data :
        LET r == PlotLearningCurvesOf[<<model, Xy>>]
        IN  /\ UNCHANGED <<defaultModels, npSeed>>
            /\ last' = [NoCall EXCEPT !.fn = "plot_learning_curves",
                          !.model = model, !.data = Xy,
                          !.events = r.events, !.raised = r.raised,
                          !.defaultBefore = defaultModels, !.seedBefore = npSeed]

CallPlotBoxPlot ==
    \E named \in Pairs, Xy \in Data,
       scoring \in {NoArg, "accuracy"}, given \in BOOLEAN, models \in ModelLists :
        /\ ~given => models = <<>>
        /\ LET name == named[1]
               model == named[2]
               r == PlotBoxPlotOf[<<named, Xy,
                        IF scoring = NoArg THEN DefaultScoring ELSE scoring,
                        given, models, defaultModels>>]
           IN  /\ defaultModels' = r.dflt
               /\ UNCHANGED npSeed
               /\ last' = [NoCall EXCEPT !.fn = "plot_box_plot", !.model = model,
                             !.data = Xy, !.model_name = name,
                             !.scoring = scoring, !.given = given,
                             !.models = models,
                             !.events = r.events, !.raised = r.raised,
                             !.modelsAfter = r.models,
                             !.defaultBefore = defaultModels,
                             !.seedBefore = npSeed]

CallFullModelEvaluation ==
    \E model \in Models, Xy \in Data, name \in {"A", NoArg} :
        LET r == FullModelEvaluationOf[<<model, Xy, name, defaultModels, npSeed>>]
        IN  /\ defaultModels' = r.dflt
            /\ npSeed' = r.seed
            /\ last' = [NoCall EXCEPT !.fn = "full_model_evaluation",
                          !.model = model, !.data = Xy, !.model_name = name,
                          !.events = r.events, !.raised = r.raised,
                          !.defaultBefore = defaultModels, !.seedBefore = npSeed]

Next ==
    \/ CallMetricEvaluation
    \/ CallPlotLearningCurves
    \/ CallPlotBoxPlot
    \/ CallFullModelEvaluation

Spec == Init /\ [][Next]_vars

\* ================================================================ properties
ME == "metric_evaluation"
PLC == "plot_learning_curves"
PBP == "plot_box_plot"
FME == "full_model_evaluation"

FiveMetrics == <<"accuracy", "precision_weighted", "recall_weighted",
                 "f1_weighted", "roc_auc">>

Events == last.events
Idx == 1..Len(Events)
Is(e, kind, f) == e.kind = kind /\ e.fn = f
IsPrint(e, f, text) == e.kind = "print" /\ e.fn = f /\ e.text = text
Count(P(_)) == Cardinality({i \in Idx : P(Events[i])})

CvsOf(f) == SelectSeq(Events, LAMBDA e : Is(e, "cvs", f))
ChartsOf(f) == SelectSeq(Events, LAMBDA e : Is(e, "chart", f))
CallsOf(f) == SelectSeq(Events, LAMBDA e : Is(e, "call", f))
ModelLines(evs) == SelectSeq(evs, LAMBDA e : IsPrint(e, PBP, "model_line"))
Rounded(scores) == [j \in 1..Len(scores) |-> Round3(scores[j])]

MeReturned == last.fn = ME /\ ~last.raised
PbpWithList == last.fn = PBP /\ last.given /\ last.models # <<>>

\* C1: a call of plot_box_plot without `models` (or with an empty list),
\* made directly or by full_model_evaluation, cross-validates and plots
\* exactly the pair (model_name, model) of that call.
C1_DefaultIsOwnPair ==
    (/\ CallsOf(PBP) # <<>>
     /\ last.fn = PBP => (~last.given \/ last.models = <<>>))
    => LET call == CallsOf(PBP)[1]
           cv == CvsOf(PBP)
       IN  /\ Len(cv) = 1
           /\ cv[1].model = call.model
           /\ \A i \in Idx :
                /\ IsPrint(Events[i], PBP, "model_line") => Events[i].name = call.name
                /\ Is(Events[i], "chart", PBP) => Events[i].names = <<call.name>>

\* C2: after any call, the state that outlives it (the default list of
\* `models`, a list passed by the caller, numpy's seed) is as before the call.
C2_NothingLeftBehind ==
    last.fn # "none"
    => /\ defaultModels = last.defaultBefore
       /\ npSeed = last.seedBefore
       /\ last.given => last.modelsAfter = last.models

\* the five rows of the returned table, one per metric and in the order of
\* the metrics, row i made of Stored(the scores of the i-th run)
FiveRows(Stored(_)) ==
    LET cv == CvsOf(ME)
        rows == last.table.rows
    IN  /\ Len(rows) = 5
        /\ Len(cv) = 5
        /\ \A i \in 1..5 :
             /\ rows[i].label = FiveMetrics[i]
             /\ cv[i].metric = FiveMetrics[i]
             /\ cv[i].model = last.model /\ cv[i].data = last.data
             /\ cv[i].n = last.cv
             /\ Len(rows[i].values) = last.cv
             /\ rows[i].values = Stored(cv[i].scores)

\* C3 as stated: the table returned by metric_evaluation has the five rows,
\* each holding the scores of the cross_val_score run of its metric.
C3_RowsHoldScores ==
    MeReturned => FiveRows(LAMBDA scores : scores)

\* C3 amended: the table returned by metric_evaluation has exactly five rows,
\* labelled with the five metrics in order, each holding the scores, rounded
\* to three decimals, of the one cross_val_score run made with that metric.
C3_RowsHoldRoundedScores ==
    MeReturned => FiveRows(Rounded)

C3_Witness ==
    /\ MeReturned
    /\ ~last.print_results /\ ~last.plot_results
    /\ last.cv = MaxCv
    /\ \E i \in 1..5 : last.table.rows[i].values # CvsOf(ME)[i].scores

\* C4: the same helper called with the same arguments reports the same
\* scores whatever ran before: the call reports what it reports in a process
\* in which no helper has run yet.
C4_SameReportWhateverRanBefore ==
    /\ last.fn = ME
       => last.table = metric_evaluation(last.model, last.data, last.cv,
                           IF last.model_name = NoArg THEN DefaultModelName
                           ELSE last.model_name,
                           last.print_results, last.plot_results).table
    /\ last.fn = PBP
       => ModelLines(Events)
          = ModelLines(plot_box_plot(last.model, last.data, last.model_name,
                           IF last.scoring = NoArg THEN DefaultScoring
                           ELSE last.scoring,
                           last.given, last.models, <<>>).events)

\* the calls and returns of helpers, in program order
Steps == SelectSeq(Events, LAMBDA e : e.kind \in {"call", "return"})

\* C5: a call of full_model_evaluation that completes ran plot_learning_curves,
\* then plot_box_plot, then metric_evaluation, each once, each with the model
\* and data of the call, each starting after the previous one returned.
C5_ThreeStepsInOrder ==
    (last.fn = FME /\ ~last.raised)
    => /\ Len(Steps) = 8
       /\ Is(Steps[1], "call", FME) /\ Is(Steps[8], "return", FME)
       /\ Is(Steps[2], "call", PLC) /\ Is(Steps[3], "return", PLC)
       /\ Is(Steps[4], "call", PBP) /\ Is(Steps[5], "return", PBP)
       /\ Is(Steps[6], "call", ME) /\ Is(Steps[7], "return", ME)
       /\ \A i \in {2, 4, 6} :
            Steps[i].model = last.model /\ Steps[i].data = last.data
       /\ \A i \in Idx :
            Events[i].kind \in {"cvs", "lc"}
            => Events[i].data = last.data

C5_Witness ==
    /\ last.fn = FME /\ ~last.raised
    /\ last.model = "m2" /\ last.data = "d1"
    /\ Count(LAMBDA e : e.kind = "cvs") = 6

\* C6: the metric given to cross_val_score, the heading and the y-axis label
\* of plot_box_plot come from the `scoring` argument.
C6_UsesScoringArgument ==
    last.fn = PBP
    => LET scoring == IF last.scoring = NoArg THEN DefaultScoring
                      ELSE last.scoring
       IN  \A i \in Idx :
             /\ Is(Events[i], "cvs", PBP) => Events[i].metric = scoring
             /\ IsPrint(Events[i], PBP, "heading")
                => Events[i].metric = MetricLabel(scoring)
             /\ Is(Events[i], "chart", PBP)
                => Events[i].metric = MetricLabel(scoring)

\* position of the library call that failed
FailedAt == CHOOSE i \in Idx : Events[i].kind \in {"cvs", "lc"} /\ ~Events[i].ok

\* C7: a library error ends the helper with that error: nothing runs after the
\* failing call, nothing is returned, and the state is as before the call.
C7_ErrorPropagatesCleanly ==
    last.raised
    => /\ \E i \in Idx : Events[i].kind \in {"cvs", "lc"} /\ ~Events[i].ok
       /\ \A i \in Idx : i > FailedAt => Events[i].kind = "raise"
       /\ Events[Len(Events)] = RaiseEv(last.fn)
       /\ \A i \in Idx : ~Is(Events[i], "return", last.fn)
       /\ last.table = NoTable
       /\ defaultModels = last.defaultBefore
       /\ npSeed = last.seedBefore

\* C8: every output of the three steps of full_model_evaluation is labelled
\* with the one model name resolved by the call.
C8_OneResolvedName ==
    last.fn = FME
    => LET model_name == IF last.model_name = NoArg THEN DecisionTree
                         ELSE last.model_name
       IN  \A i \in Idx :
             /\ (Events[i].kind = "print"
                 /\ Events[i].text \in {"learning_curve_heading", "model_line",
                                        "averaged_heading", "complete"})
                => Events[i].name = model_name
             /\ Is(Events[i], "chart", PBP) => Events[i].names = <<model_name>>
             /\ Is(Events[i], "chart", ME) => Events[i].name = model_name

\* the table the five runs of the call give, whatever the flags
TableOfRuns ==
    [rows |-> [i \in 1..5 |->
                 [label |-> FiveMetrics[i],
                  values |-> Rounded(cross_val_score(last.model, last.data,
                                        FiveMetrics[i], last.cv, Seed100))]],
     ncols |-> last.cv]

\* C9: print_results and plot_results change what metric_evaluation displays,
\* not what it computes: the five runs and the table are the same, the
\* averaged scores are printed iff print_results, the chart is made iff
\* plot_results and before any printing, the completion line is printed once.
C9_FlagsOnlyChangeDisplay ==
    MeReturned
    => LET name == IF last.model_name = NoArg THEN DefaultModelName
                   ELSE last.model_name
       IN  /\ Len(CvsOf(ME)) = 5
           /\ \A i \in 1..5 : CvsOf(ME)[i].metric = FiveMetrics[i]
           /\ last.table = TableOfRuns
           /\ Count(LAMBDA e : IsPrint(e, ME, "averaged_heading"))
              = IF last.print_results THEN 1 ELSE 0
           /\ Count(LAMBDA e : IsPrint(e, ME, "averaged_scores"))
              = IF last.print_results THEN 1 ELSE 0
           /\ Count(LAMBDA e : Is(e, "chart", ME))
              = IF last.plot_results THEN 1 ELSE 0
           /\ \A i, j \in Idx :
                (Is(Events[i], "chart", ME) /\ Events[j].kind = "print") => i < j
           /\ \A i \in Idx :
                Is(Events[i], "chart", ME) => Events[i].table = last.table
           /\ Count(LAMBDA e : IsPrint(e, ME, "complete") /\ e.name = name) = 1
           /\ Count(LAMBDA e : IsPrint(e, ME, "complete")) = 1

C9_Witness ==
    /\ MeReturned
    /\ ~last.print_results /\ last.plot_results
    /\ Count(LAMBDA e : e.kind = "print") = 1
    /\ Count(LAMBDA e : e.kind = "chart") = 1

\* C10: with a non-empty `models` list, plot_box_plot cross-validates the
\* models of the list, each once and in list order (up to the first that
\* fails), never the `model` argument in their place, leaves the list as it
\* was, and plots box i and tick label i from the i-th pair.
C10_EvaluatesTheListInOrder ==
    PbpWithList
    => LET cv == CvsOf(PBP)
           models == last.models
       IN  /\ Len(cv) <= Len(models)
           /\ \A i \in 1..Len(cv) :
                /\ cv[i].model = models[i][2]
                /\ cv[i].data = last.data
                /\ i < Len(cv) => cv[i].ok
           /\ last.raised <=> (cv # <<>> /\ ~cv[Len(cv)].ok)
           /\ ~last.raised => Len(cv) = Len(models)
           /\ last.modelsAfter = models
           /\ defaultModels = last.defaultBefore
           /\ ~last.raised
              => /\ Len(ChartsOf(PBP)) = 1
                 /\ LET chart == ChartsOf(PBP)[1]
                    IN  /\ Len(chart.names) = Len(models)
                        /\ Len(chart.results) = Len(models)
                        /\ \A i \in 1..Len(models) :
                             /\ chart.names[i] = models[i][1]
                             /\ chart.results[i] = cv[i].scores
                 /\ Len(ModelLines(Events)) = Len(models)
                 /\ \A i \in 1..Len(models) :
                      ModelLines(Events)[i].name = models[i][1]

C10_Witness ==
    /\ PbpWithList
    /\ ~last.raised
    /\ last.models = << <<"B", "m2">>, <<"A", "m1">> >>
    /\ last.model = "bad"
    /\ Len(CvsOf(PBP)) = 2

====
